---- MODULE Spec2Model ----
(***************************************************************************)
(* scripts/rename_migrations_to_unix_ms.py: plan the renaming of migration *)
(* files '<YYYYMMDDHHMMSS>_<rest>.ts' to '<unix_ms>_<rest>.ts' and print   *)
(* the mv commands and the SQL updates of inventory_schema_migrations.     *)
(*                                                                         *)
(* A file name is a sequence of Unicode code points.  Numbers that do not  *)
(* fit TLC's 32-bit integers (Unix seconds and milliseconds) are kept as   *)
(* two base-1000 limbs or as decimal digit strings.                        *)
(***************************************************************************)
EXTENDS Integers, Sequences, FiniteSets, TLC

----------------------------------------------------------------------------
(* Bounds of the model *)

\* most entries a directory holds
MaxFiles == 2
\* runs of the script: the first, and the re-runs after the operator has
\* executed the printed mv commands
MaxRuns == 2

----------------------------------------------------------------------------
(* Characters *)

CharNewline == 10
CharSpace == 32
CharMinus == 45
CharDot == 46
CharZero == 48
CharUnderscore == 95
CharS == 115
CharT == 116
\* U+0660 ARABIC-INDIC DIGIT ZERO: the first of a block of ten decimal digits
\* outside ASCII, which Python's \d matches in a str pattern as well
CharArabicZero == 1632

AsciiDigits == CharZero .. (CharZero + 9)
ArabicDigits == CharArabicZero .. (CharArabicZero + 9)

\* \d of a str pattern: any Unicode decimal digit (here: the two blocks above)
IsDigit(c) == c \in AsciiDigits \/ c \in ArabicDigits

\* the value int() gives a decimal digit
DigitValue(c) == IF c \in AsciiDigits THEN c - CharZero ELSE c - CharArabicZero

\* int(s) of a string of decimal digits
RECURSIVE IntOf(_)
IntOf(s) ==
    IF s = <<>> THEN 0
    ELSE 10 * IntOf(SubSeq(s, 1, Len(s) - 1)) + DigitValue(s[Len(s)])

\* str(n), n >= 0
RECURSIVE IntStr(_)
IntStr(n) ==
    IF n < 10 THEN <<CharZero + n>>
    ELSE IntStr(n \div 10) \o <<CharZero + (n % 10)>>

MaxOf(S) == CHOOSE x \in S : \A y \in S : y <= x

----------------------------------------------------------------------------
(* pathlib *)

\* MIG_DIR = Path("src/migrations")
MIG_DIR == <<115, 114, 99, 47, 109, 105, 103, 114, 97, 116, 105, 111, 110, 115>>

\* ".ts"
TsSuffix == <<CharDot, CharT, CharS>>

\* name.rfind('.') + 1, 0 when the name has no dot
LastDot(name) ==
    LET dots == {k \in 1 .. Len(name) : name[k] = CharDot}
    IN  IF dots = {} THEN 0 ELSE MaxOf(dots)

\* PurePath.suffix: from the last dot on, unless the dot is the first or the
\* last character of the name
Suffix(name) ==
    LET k == LastDot(name)
    IN  IF 1 < k /\ k < Len(name) THEN SubSeq(name, k, Len(name)) ELSE <<>>

\* PurePath.stem
Stem(name) ==
    LET k == LastDot(name)
    IN  IF 1 < k /\ k < Len(name) THEN SubSeq(name, 1, k - 1) ELSE name

\* MIG_DIR / name
PathOf(name) == [parent |-> MIG_DIR, name |-> name]

\* str < str: code point by code point, a proper prefix is smaller
RECURSIVE StrLess(_, _)
StrLess(a, b) ==
    IF b = <<>> THEN FALSE
    ELSE IF a = <<>> THEN TRUE
    ELSE IF Head(a) # Head(b) THEN Head(a) < Head(b)
    ELSE StrLess(Tail(a), Tail(b))

\* PurePath.__lt__ of two paths of the same directory
PathLess(p, q) == StrLess(p.name, q.name)

\* insert x into a sorted list, after the elements not greater (sorted() is
\* stable)
RECURSIVE InsertSorted(_, _)
InsertSorted(x, s) ==
    IF s = <<>> THEN <<x>>
    ELSE IF PathLess(x, Head(s)) THEN <<x>> \o s
    ELSE <<Head(s)>> \o InsertSorted(x, Tail(s))

\* (the list left in the order iterdir() gave)
SortedAsListed(s) == s

\* sorted(): insertion into the sorted list of the elements before
RECURSIVE Sorted(_)
Sorted(s) ==
    IF s = <<>> THEN <<>>
    ELSE InsertSorted(s[Len(s)], Sorted(SubSeq(s, 1, Len(s) - 1)))

----------------------------------------------------------------------------
(* pat = re.compile(r"^(\d{14})_(.+)\.ts$") *)

\* the positions where group 2 can end: '.ts' follows, then the end of the
\* string or one newline before it ($), and '.' of '.+' matches no newline
\* ((.*) for (.+): group 2 may be empty)
PatEndsEmptyRest(name) ==
    {e \in 15 .. Len(name) :
        /\ e + 3 <= Len(name)
        /\ SubSeq(name, e + 1, e + 3) = TsSuffix
        /\ \/ e + 3 = Len(name)
           \/ e + 4 = Len(name) /\ name[Len(name)] = CharNewline
        /\ \A k \in 16 .. e : name[k] # CharNewline}

PatEnds(name) ==
    {e \in 16 .. Len(name) :
        /\ e + 3 <= Len(name)
        /\ SubSeq(name, e + 1, e + 3) = TsSuffix
        /\ \/ e + 3 = Len(name)
           \/ e + 4 = Len(name) /\ name[Len(name)] = CharNewline
        /\ \A k \in 16 .. e : name[k] # CharNewline}

PatMatches(name) ==
    /\ Len(name) >= 15
    /\ \A k \in 1 .. 14 : IsDigit(name[k])
    /\ name[15] = CharUnderscore
    /\ PatEnds(name) # {}

\* m.group(1)
Group1(name) == SubSeq(name, 1, 14)
\* m.group(2): '.+' is greedy
Group2(name) == SubSeq(name, 16, MaxOf(PatEnds(name)))

----------------------------------------------------------------------------
(* datetime.strptime(ymdhms, "%Y%m%d%H%M%S") *)

\* the directives of the format, in order
Directives == <<"Y", "m", "d", "H", "M", "S">>

\* s[p] is an ASCII digit of value lo..hi (a class such as [0-2] of the
\* directive's regular expression)
AsciiIn(s, p, lo, hi) ==
    p <= Len(s) /\ s[p] \in (CharZero + lo) .. (CharZero + hi)

\* s[p] matches \d
AnyDigit(s, p) == p <= Len(s) /\ IsDigit(s[p])

AltHolds(alt) == alt[1]

\* the alternatives of a directive's regular expression that match at p, in
\* the order the expression lists them, each as <<TRUE, length matched>>:
\*   %Y \d\d\d\d                        %m 1[0-2]|0[1-9]|[1-9]
\*   %d 3[0-1]|[1-2]\d|0[1-9]|[1-9]| [1-9]
\*   %H 2[0-3]|[0-1]\d|\d               %M [0-5]\d|\d
\*   %S 6[0-1]|[0-5]\d|\d
DirectiveAlts(f, s, p) ==
    SelectSeq(
        CASE f = "Y" ->
               << <<AnyDigit(s, p) /\ AnyDigit(s, p + 1)
                      /\ AnyDigit(s, p + 2) /\ AnyDigit(s, p + 3), 4>> >>
          [] f = "m" ->
               << <<AsciiIn(s, p, 1, 1) /\ AsciiIn(s, p + 1, 0, 2), 2>>,
                  <<AsciiIn(s, p, 0, 0) /\ AsciiIn(s, p + 1, 1, 9), 2>>,
                  <<AsciiIn(s, p, 1, 9), 1>> >>
          [] f = "d" ->
               << <<AsciiIn(s, p, 3, 3) /\ AsciiIn(s, p + 1, 0, 1), 2>>,
                  <<AsciiIn(s, p, 1, 2) /\ AnyDigit(s, p + 1), 2>>,
                  <<AsciiIn(s, p, 0, 0) /\ AsciiIn(s, p + 1, 1, 9), 2>>,
                  <<AsciiIn(s, p, 1, 9), 1>>,
                  <<p <= Len(s) /\ s[p] = CharSpace /\ AsciiIn(s, p + 1, 1, 9), 2>> >>
          [] f = "H" ->
               << <<AsciiIn(s, p, 2, 2) /\ AsciiIn(s, p + 1, 0, 3), 2>>,
                  <<AsciiIn(s, p, 0, 1) /\ AnyDigit(s, p + 1), 2>>,
                  <<AnyDigit(s, p), 1>> >>
          [] f = "M" ->
               << <<AsciiIn(s, p, 0, 5) /\ AnyDigit(s, p + 1), 2>>,
                  <<AnyDigit(s, p), 1>> >>
          [] f = "S" ->
               << <<AsciiIn(s, p, 6, 6) /\ AsciiIn(s, p + 1, 0, 1), 2>>,
                  <<AsciiIn(s, p, 0, 5) /\ AnyDigit(s, p + 1), 2>>,
                  <<AnyDigit(s, p), 1>> >>,
        AltHolds)

\* format_regex.match(data_string): the first match a backtracking search
\* finds for the directives k.. from position p; lens are the lengths the
\* directives matched
RECURSIVE FindMatch(_, _, _)
RECURSIVE TryAlts(_, _, _, _)
FindMatch(s, p, k) ==
    IF k > Len(Directives) THEN [ok |-> TRUE, lens |-> <<>>]
    ELSE TryAlts(s, p, k, DirectiveAlts(Directives[k], s, p))

TryAlts(s, p, k, alts) ==
    IF alts = <<>> THEN [ok |-> FALSE, lens |-> <<>>]
    ELSE LET n == Head(alts)[2]
             r == FindMatch(s, p + n, k + 1)
         IN  IF r.ok THEN [ok |-> TRUE, lens |-> <<n>> \o r.lens]
             ELSE TryAlts(s, p, k, Tail(alts))

RECURSIVE SumTo(_, _)
SumTo(lens, k) == IF k = 0 THEN 0 ELSE lens[k] + SumTo(lens, k - 1)

\* the text the k-th directive matched
FieldText(s, lens, k) ==
    SubSeq(s, SumTo(lens, k - 1) + 1, SumTo(lens, k))

\* calendar: _is_leap, _days_in_month
IsLeap(y) == y % 4 = 0 /\ (y % 100 # 0 \/ y % 400 = 0)

DaysInMonthTable == <<31, 28, 31, 30, 31, 30, 31, 31, 30, 31, 30, 31>>

DaysInMonth(y, m) ==
    IF m = 2 /\ IsLeap(y) THEN 29 ELSE DaysInMonthTable[m]

\* (strptime that does not test whether the day exists in its month)
StrptimeAnyDay(s) ==
    LET r  == FindMatch(s, 1, 1)
        f(k) == IntOf(FieldText(s, r.lens, k))
        bad == [ok |-> FALSE, year |-> 0, month |-> 0, day |-> 0,
                hour |-> 0, minute |-> 0, second |-> 0]
    IN  IF ~r.ok THEN bad
        ELSE IF SumTo(r.lens, Len(r.lens)) # Len(s) THEN bad
        ELSE IF f(1) < 1 THEN bad
        ELSE IF f(6) > 59 THEN bad
        ELSE [ok |-> TRUE, year |-> f(1), month |-> f(2), day |-> f(3),
              hour |-> f(4), minute |-> f(5), second |-> f(6)]

\* the outcome of strptime: the fields, or ValueError.  The match must cover
\* the whole string ('unconverted data remains'), the date must exist (year
\* 0, day 30 of February) and datetime() takes no second above 59.
Strptime(s) ==
    LET r  == FindMatch(s, 1, 1)
        f(k) == IntOf(FieldText(s, r.lens, k))
        bad == [ok |-> FALSE, year |-> 0, month |-> 0, day |-> 0,
                hour |-> 0, minute |-> 0, second |-> 0]
    IN  IF ~r.ok THEN bad
        ELSE IF SumTo(r.lens, Len(r.lens)) # Len(s) THEN bad
        ELSE IF f(1) < 1 THEN bad
        ELSE IF f(3) > DaysInMonth(f(1), f(2)) THEN bad
        ELSE IF f(6) > 59 THEN bad
        ELSE [ok |-> TRUE, year |-> f(1), month |-> f(2), day |-> f(3),
              hour |-> f(4), minute |-> f(5), second |-> f(6)]

----------------------------------------------------------------------------
(* dt.timestamp() and int(... * 1000) *)

\* datetime: _days_before_year
DaysBeforeYear(y) ==
    (y - 1) * 365 + ((y - 1) \div 4) - ((y - 1) \div 100) + ((y - 1) \div 400)

\* datetime: _days_before_month
RECURSIVE DaysBeforeMonth(_, _)
DaysBeforeMonth(y, m) ==
    IF m = 1 THEN 0 ELSE DaysBeforeMonth(y, m - 1) + DaysInMonth(y, m - 1)

\* datetime: _ymd2ord, the day's ordinal, 0001-01-01 being day 1
Ymd2Ord(y, m, d) == DaysBeforeYear(y) + DaysBeforeMonth(y, m) + d

\* the ordinal of _EPOCH = 1970-01-01
EpochOrdinal == Ymd2Ord(1970, 1, 1)

\* (the naive datetime taken as local time, one hour west of UTC, which is
\* what timestamp() does without replace(tzinfo=timezone.utc))
EpochDeltaLocalTime(dt) ==
    [days    |-> Ymd2Ord(dt.year, dt.month, dt.day) - EpochOrdinal,
     seconds |-> dt.hour * 3600 + dt.minute * 60 + dt.second + 3600]

\* dt - _EPOCH as a timedelta, dt in UTC: whole days (negative before 1970)
\* and the seconds within the day
EpochDelta(dt) ==
    [days    |-> Ymd2Ord(dt.year, dt.month, dt.day) - EpochOrdinal,
     seconds |-> dt.hour * 3600 + dt.minute * 60 + dt.second]

\* |days * 86400 + seconds| in two limbs, hi * 1000 + lo with lo in 0..999;
\* the float total_seconds() returns is this integer exactly (below 2^53)
AbsSeconds(td) ==
    LET a == IF td.days >= 0 THEN td.days ELSE 0 - td.days
        x == (a \div 1000) * 86400
        y == IF td.days >= 0 THEN (a % 1000) * 86400 + td.seconds
                             ELSE (a % 1000) * 86400 - td.seconds
    IN  [hi |-> x + (y \div 1000), lo |-> y % 1000]

\* three digits, zero padded
Pad3(n) ==
    <<CharZero + (n \div 100), CharZero + ((n \div 10) % 10), CharZero + (n % 10)>>

\* f"{unix_ms}" with unix_ms = int(dt.timestamp() * 1000): the seconds
\* times 1000, exact in a float; a minus sign before 1970, "0" at the epoch
UnixMsStr(dt) ==
    LET td == EpochDelta(dt)
        a  == AbsSeconds(td)
        digits == IF a.hi > 0 THEN IntStr(a.hi) \o Pad3(a.lo) ELSE IntStr(a.lo)
    IN  IF td.days = 0 /\ td.seconds = 0 THEN <<CharZero>>
        ELSE IF td.days < 0 THEN <<CharMinus>> \o digits \o <<CharZero, CharZero, CharZero>>
        ELSE digits \o <<CharZero, CharZero, CharZero>>

\* new_name of a file the pattern matches and whose digits parse
NewBase(name) == UnixMsStr(Strptime(Group1(name))) \o <<CharUnderscore>> \o Group2(name)
NewName(name) == NewBase(name) \o TsSuffix

----------------------------------------------------------------------------
(* The directories the script is run on *)

\* a 14-digit prefix in ASCII digits, and one whose year is written in
\* Arabic-Indic digits
Ascii14(ds) == [k \in 1 .. 14 |-> CharZero + ds[k]]
ArabicYear14(ds) ==
    [k \in 1 .. 14 |-> IF k <= 4 THEN CharArabicZero + ds[k] ELSE CharZero + ds[k]]

\* '<prefix>_<rest>.ts'
TsName(prefix, rest) == prefix \o <<CharUnderscore>> \o rest \o TsSuffix

RestX == <<120>>
RestCreateOrders == <<99, 114, 101, 97, 116, 101, 95, 111, 114, 100, 101, 114, 115>>

T20230615143000 == <<2, 0, 2, 3, 0, 6, 1, 5, 1, 4, 3, 0, 0, 0>>

\* names whose digits are a date and time
DatedNames ==
    { TsName(Ascii14(T20230615143000), RestCreateOrders),
      TsName(Ascii14(T20230615143000), RestX),
      \* rest 'x.ts': the name ends '.ts.ts'
      TsName(Ascii14(T20230615143000), RestX \o TsSuffix),
      TsName(Ascii14(<<2, 0, 2, 4, 0, 2, 2, 9, 1, 2, 0, 0, 0, 0>>), RestX),
      \* before, at and just after the epoch
      TsName(Ascii14(<<1, 9, 6, 9, 1, 2, 3, 1, 2, 3, 5, 9, 5, 9>>), RestX),
      TsName(Ascii14(<<1, 9, 7, 0, 0, 1, 0, 1, 0, 0, 0, 0, 0, 0>>), RestX),
      TsName(Ascii14(<<1, 9, 7, 0, 0, 1, 0, 1, 0, 0, 0, 0, 0, 1>>), RestX),
      \* the first and the last second datetime has
      TsName(Ascii14(<<0, 0, 0, 1, 0, 1, 0, 1, 0, 0, 0, 0, 0, 0>>), RestX),
      TsName(Ascii14(<<9, 9, 9, 9, 1, 2, 3, 1, 2, 3, 5, 9, 5, 9>>), RestX),
      \* 10^10 seconds and 20230615143 seconds after the epoch
      TsName(Ascii14(<<2, 2, 8, 6, 1, 1, 2, 0, 1, 7, 4, 6, 4, 0>>), RestX),
      TsName(Ascii14(<<2, 6, 1, 1, 0, 1, 3, 1, 1, 5, 1, 9, 0, 3>>), RestX),
      \* the year in Arabic-Indic digits
      TsName(ArabicYear14(T20230615143000), RestCreateOrders) }

\* names of 14 digits that are no date and time, or that strptime refuses
UndatedNames ==
    { TsName(Ascii14(<<2, 0, 2, 3, 1, 3, 0, 1, 0, 0, 0, 0, 0, 0>>), RestX),
      TsName(Ascii14(<<2, 0, 2, 3, 0, 0, 1, 5, 0, 0, 0, 0, 0, 0>>), RestX),
      TsName(Ascii14(<<2, 0, 2, 3, 0, 6, 3, 2, 0, 0, 0, 0, 0, 0>>), RestX),
      TsName(Ascii14(<<2, 0, 2, 3, 0, 2, 2, 9, 0, 0, 0, 0, 0, 0>>), RestX),
      TsName(Ascii14(<<2, 0, 2, 3, 0, 6, 1, 5, 2, 4, 0, 0, 0, 0>>), RestX),
      TsName(Ascii14(<<2, 0, 2, 3, 0, 6, 1, 5, 1, 4, 3, 0, 6, 0>>), RestX),
      TsName(Ascii14(<<0, 0, 0, 0, 0, 1, 0, 1, 0, 0, 0, 0, 0, 0>>), RestX),
      \* the month in Arabic-Indic digits
      TsName([k \in 1 .. 14 |->
                 IF k \in 5 .. 6 THEN CharArabicZero + T20230615143000[k]
                                 ELSE CharZero + T20230615143000[k]], RestX) }

\* names the pattern does not match
OtherNames ==
    { \* notes.ts
      <<110, 111, 116, 101, 115>> \o TsSuffix,
      \* 13 and 15 digits
      TsName(SubSeq(Ascii14(T20230615143000), 1, 13), RestX),
      TsName(Ascii14(T20230615143000) \o <<CharZero>>, RestX),
      \* nothing between the underscore and '.ts'
      TsName(Ascii14(T20230615143000), <<>>),
      \* no underscore after the digits
      Ascii14(T20230615143000) \o RestX \o TsSuffix,
      \* a newline within the rest, and after '.ts'
      TsName(Ascii14(T20230615143000), <<120, CharNewline, 120>>),
      TsName(Ascii14(T20230615143000), RestX) \o <<CharNewline>>,
      \* another extension
      Ascii14(T20230615143000) \o <<CharUnderscore, 120, CharDot, CharT, 120, CharT>> }

Pool == DatedNames \cup UndatedNames \cup OtherNames

\* the directories of at most MaxFiles entries
Dirs ==
    UNION {{{f[n] : n \in 1 .. c} : f \in [1 .. c -> Pool]} : c \in 0 .. MaxFiles}

\* the orders a directory listing can come in
Listings(S) ==
    {l \in [1 .. Cardinality(S) -> S] : \A a, b \in 1 .. Cardinality(S) : a # b => l[a] # l[b]}

----------------------------------------------------------------------------
(* The script *)

VARIABLES
    exists,       \* src/migrations is a directory that can be read
    dir,          \* the names of its entries
    run,          \* 1 for the first run of the script, 2 for the second, ..
    pc,           \* where the run is: list, loop, print_mv, print_sql, done, failed
    err,          \* the exception that ended the run, or "none"
    files,        \* files: the sorted paths
    i,            \* the for loop's position in files
    renames,      \* renames
    sql_updates,  \* sql_updates
    k,            \* a print loop's position in its list
    out           \* the lines printed to standard output

vars == <<exists, dir, run, pc, err, files, i, renames, sql_updates, k, out>>

\* a printed line: the f-string's text and the values of its fields
Line(text, args) == [text |-> text, args |-> args]

\* PurePath.as_posix
AsPosix(p) == p.parent \o <<47>> \o p.name

MvHeader == Line("# mv commands:", <<>>)
SqlHeader == Line("\n# SQL updates for inventory_schema_migrations (run these in psql):", <<>>)
MvLine(r) == Line("mv {oldp.as_posix()} {newp.as_posix()}", <<AsPosix(r[1]), AsPosix(r[2])>>)
SqlLine(u) ==
    Line("update inventory_schema_migrations set name='{new_base}' where name='{old_base}';",
         <<u[2], u[1]>>)

Init ==
    /\ exists \in BOOLEAN
    /\ dir \in Dirs
    /\ exists = FALSE => dir = {}
    /\ run = 1
    /\ pc = "list"
    /\ err = "none"
    /\ files = <<>>
    /\ i = 1
    /\ renames = <<>>
    /\ sql_updates = <<>>
    /\ k = 1
    /\ out = <<>>

\* files = sorted([p for p in MIG_DIR.iterdir() if p.suffix == ".ts"])
TsPaths(listing) ==
    LET IsTs(name) == Suffix(name) = TsSuffix
        names == SelectSeq(listing, IsTs)
    IN  [n \in 1 .. Len(names) |-> PathOf(names[n])]

\* (the first header printed before the loop instead of after it)
ListDirPrintsHeader ==
    /\ pc = "list"
    /\ exists
    /\ \E listing \in Listings(dir) : files' = Sorted(TsPaths(listing))
    /\ pc' = "loop"
    /\ out' = Append(out, MvHeader)
    /\ UNCHANGED <<exists, dir, run, err, i, renames, sql_updates, k>>

ListDir ==
    /\ pc = "list"
    /\ exists
    /\ \E listing \in Listings(dir) : files' = Sorted(TsPaths(listing))
    /\ pc' = "loop"
    /\ UNCHANGED <<exists, dir, run, err, i, renames, sql_updates, k, out>>

\* iterdir() raises: the directory is missing
ListDirFails ==
    /\ pc = "list"
    /\ ~exists
    /\ pc' = "failed"
    /\ err' = "FileNotFoundError"
    /\ UNCHANGED <<exists, dir, run, files, i, renames, sql_updates, k, out>>

\* (MIG_DIR / p.name for MIG_DIR / new_name)
RenameEntrySamePath(p) == <<p, PathOf(p.name)>>

\* (p, MIG_DIR / new_name)
RenameEntry(p) == <<p, PathOf(NewName(p.name))>>

\* (old_base = p.name for p.stem)
SqlEntryWithSuffix(p) == <<p.name, NewBase(p.name)>>

\* (old_base, new_base), old_base = p.stem
SqlEntry(p) == <<Stem(p.name), NewBase(p.name)>>

\* one iteration of 'for p in files'
LoopBody ==
    /\ pc = "loop"
    /\ i <= Len(files)
    /\ LET p == files[i]
       IN  IF ~PatMatches(p.name)
           THEN \* continue
                /\ i' = i + 1
                /\ UNCHANGED <<pc, err, renames, sql_updates>>
           ELSE IF ~Strptime(Group1(p.name)).ok
           THEN \* strptime raises
                /\ pc' = "failed"
                /\ err' = "ValueError"
                /\ UNCHANGED <<i, renames, sql_updates>>
           ELSE IF NewName(p.name) = p.name
           THEN \* continue
                /\ i' = i + 1
                /\ UNCHANGED <<pc, err, renames, sql_updates>>
           ELSE /\ renames' = Append(renames, RenameEntry(p))
                /\ sql_updates' = Append(sql_updates, SqlEntry(p))
                /\ i' = i + 1
                /\ UNCHANGED <<pc, err>>
    /\ UNCHANGED <<exists, dir, run, files, k, out>>

\* the loop is over: print("# mv commands:")
PrintMvHeader ==
    /\ pc = "loop"
    /\ i > Len(files)
    /\ out' = Append(out, MvHeader)
    /\ pc' = "print_mv"
    /\ k' = 1
    /\ UNCHANGED <<exists, dir, run, err, files, i, renames, sql_updates>>

\* one iteration of 'for oldp, newp in renames'
PrintMv ==
    /\ pc = "print_mv"
    /\ k <= Len(renames)
    /\ out' = Append(out, MvLine(renames[k]))
    /\ k' = k + 1
    /\ UNCHANGED <<exists, dir, run, pc, err, files, i, renames, sql_updates>>

PrintSqlHeader ==
    /\ pc = "print_mv"
    /\ k > Len(renames)
    /\ out' = Append(out, SqlHeader)
    /\ pc' = "print_sql"
    /\ k' = 1
    /\ UNCHANGED <<exists, dir, run, err, files, i, renames, sql_updates>>

\* one iteration of 'for old_base, new_base in sql_updates'
PrintSql ==
    /\ pc = "print_sql"
    /\ k <= Len(sql_updates)
    /\ out' = Append(out, SqlLine(sql_updates[k]))
    /\ k' = k + 1
    /\ UNCHANGED <<exists, dir, run, pc, err, files, i, renames, sql_updates>>

\* the script ends
Exit ==
    /\ pc = "print_sql"
    /\ k > Len(sql_updates)
    /\ pc' = "done"
    /\ UNCHANGED <<exists, dir, run, err, files, i, renames, sql_updates, k, out>>

\* the directory after the printed mv commands have been executed in order:
\* mv replaces a file of the new name, and fails when the old one is gone
RECURSIVE Moved(_, _)
Moved(d, rs) ==
    IF rs = <<>> THEN d
    ELSE LET old == Head(rs)[1].name
             new == Head(rs)[2].name
         IN  Moved(IF old \in d THEN (d \ {old}) \cup {new} ELSE d, Tail(rs))

\* the operator executes the mv commands of a completed run and runs the
\* script again
RunAgain ==
    /\ pc = "done"
    /\ run < MaxRuns
    /\ dir' = Moved(dir, renames)
    /\ run' = run + 1
    /\ pc' = "list"
    /\ files' = <<>>
    /\ i' = 1
    /\ renames' = <<>>
    /\ sql_updates' = <<>>
    /\ k' = 1
    /\ out' = <<>>
    /\ UNCHANGED <<exists, err>>

Next ==
    \/ ListDir
    \/ ListDirFails
    \/ LoopBody
    \/ PrintMvHeader
    \/ PrintMv
    \/ PrintSqlHeader
    \/ PrintSql
    \/ Exit
    \/ RunAgain

Spec == Init /\ [][Next]_vars

----------------------------------------------------------------------------
(* The vocabulary of the properties, stated on names and calendar dates    *)
(* without the script's own conversions                                    *)

\* a decimal digit, and its value
DecimalDigit(c) == (48 <= c /\ c <= 57) \/ (1632 <= c /\ c <= 1641)
DecimalValue(c) == IF c >= 1632 THEN c - 1632 ELSE c - 48

EndsWithTs(name) ==
    /\ Len(name) >= 3
    /\ name[Len(name) - 2] = 46
    /\ name[Len(name) - 1] = 116
    /\ name[Len(name)] = 115

\* the name less its '.ts'
WithoutTs(name) == SubSeq(name, 1, Len(name) - 3)

\* 14 decimal digits, underscore, one or more characters, .ts
Described(name) ==
    /\ Len(name) >= 19
    /\ \A n \in 1 .. 14 : DecimalDigit(name[n])
    /\ name[15] = 95
    /\ EndsWithTs(name)

\* the name passes the pattern: it is as described, and the characters
\* between the underscore and '.ts' are characters '.' stands for
PassesPattern(name) ==
    /\ Described(name)
    /\ \A n \in 16 .. Len(name) - 3 : name[n] # 10

\* the part after the first underscore following the 14 digits
RestOf(name) == SubSeq(name, 16, Len(name) - 3)

\* the number two digits at a, a + 1 stand for
TwoDigits(name, a) == 10 * DecimalValue(name[a]) + DecimalValue(name[a + 1])

\* the calendar fields the 14 digits stand for
FieldsOf(name) ==
    [year   |-> 100 * TwoDigits(name, 1) + TwoDigits(name, 3),
     month  |-> TwoDigits(name, 5),
     day    |-> TwoDigits(name, 7),
     hour   |-> TwoDigits(name, 9),
     minute |-> TwoDigits(name, 11),
     second |-> TwoDigits(name, 13)]

LeapYear(y) == y % 400 = 0 \/ (y % 4 = 0 /\ y % 100 # 0)

MonthLength(y, m) ==
    IF m \in {4, 6, 9, 11} THEN 30
    ELSE IF m = 2 THEN (IF LeapYear(y) THEN 29 ELSE 28)
    ELSE 31

\* the fields are a date and time of the years 0001 to 9999
IsDateTime(f) ==
    /\ f.year \in 1 .. 9999
    /\ f.month \in 1 .. 12
    /\ f.day \in 1 .. MonthLength(f.year, f.month)
    /\ f.hour \in 0 .. 23
    /\ f.minute \in 0 .. 59
    /\ f.second \in 0 .. 59

\* days from 1970-01-01 to the civil date y-m-d (proleptic Gregorian)
DaysFromCivil(y, m, d) ==
    LET yy  == IF m <= 2 THEN y - 1 ELSE y
        era == yy \div 400
        yoe == yy - era * 400
        mp  == IF m > 2 THEN m - 3 ELSE m + 9
        doy == ((153 * mp + 2) \div 5) + d - 1
        doe == yoe * 365 + (yoe \div 4) - (yoe \div 100) + doy
    IN  era * 146097 + doe - 719468

\* the civil date z days after 1970-01-01
CivilFromDays(z) ==
    LET zz  == z + 719468
        era == zz \div 146097
        doe == zz - era * 146097
        yoe == (doe - (doe \div 1460) + (doe \div 36524) - (doe \div 146096)) \div 365
        doy == doe - (365 * yoe + (yoe \div 4) - (yoe \div 100))
        mp  == (5 * doy + 2) \div 153
        m   == IF mp < 10 THEN mp + 3 ELSE mp - 9
    IN  [year  |-> yoe + era * 400 + (IF m <= 2 THEN 1 ELSE 0),
         month |-> m,
         day   |-> doy - ((153 * mp + 2) \div 5) + 1]

\* the characters of a base name before its first underscore
RECURSIVE IntegerPrefix(_)
IntegerPrefix(base) ==
    IF base = <<>> \/ Head(base) = 95 THEN <<>>
    ELSE <<Head(base)>> \o IntegerPrefix(Tail(base))

\* the digits of a decimal integer, less its sign
Magnitude(prefix) == IF Head(prefix) = 45 THEN Tail(prefix) ELSE prefix

\* the prefix is how an integer multiple of 1000 is written in decimal: 0,
\* or ASCII digits without a leading zero that end 000, after '-' if negative
WritesWholeSeconds(prefix) ==
    /\ prefix # <<>>
    /\ LET d == Magnitude(prefix)
       IN  /\ d # <<>>
           /\ \A n \in 1 .. Len(d) : 48 <= d[n] /\ d[n] <= 57
           /\ \/ prefix = <<48>>
              \/ /\ Len(d) > 3
                 /\ d[1] # 48
                 /\ SubSeq(d, Len(d) - 2, Len(d)) = <<48, 48, 48>>

\* long division of a decimal digit string by 86400, q and r the quotient
\* and the remainder so far
RECURSIVE DivideByDay(_, _, _)
DivideByDay(d, q, r) ==
    IF d = <<>> THEN [q |-> q, r |-> r]
    ELSE LET t == 10 * r + (Head(d) - 48)
         IN  DivideByDay(Tail(d), 10 * q + (t \div 86400), t % 86400)

\* the milliseconds a prefix writes, as the day and the second of the day
\* they fall in, counted from 1970-01-01T00:00:00
DayAndSecond(prefix) ==
    LET d    == Magnitude(prefix)
        secs == IF Len(d) > 3 THEN SubSeq(d, 1, Len(d) - 3) ELSE <<48>>
        qr   == DivideByDay(secs, 0, 0)
    IN  IF Head(prefix) # 45 THEN [days |-> qr.q, seconds |-> qr.r]
        ELSE IF qr.r = 0 THEN [days |-> 0 - qr.q, seconds |-> 0]
        ELSE [days |-> 0 - qr.q - 1, seconds |-> 86400 - qr.r]

\* n in w ASCII digits, zero padded
RECURSIVE Padded(_, _)
Padded(n, w) ==
    IF w = 0 THEN <<>> ELSE Padded(n \div 10, w - 1) \o <<48 + (n % 10)>>

\* Unix milliseconds back to year, month, day, hour, minute, second in UTC,
\* zero padded to 4/2/2/2/2/2 digits
BackTo14(prefix) ==
    LET ds == DayAndSecond(prefix)
        c  == CivilFromDays(ds.days)
    IN  Padded(c.year, 4) \o Padded(c.month, 2) \o Padded(c.day, 2)
          \o Padded(ds.seconds \div 3600, 2)
          \o Padded((ds.seconds \div 60) % 60, 2)
          \o Padded(ds.seconds % 60, 2)

\* the loop has dealt with files[j]
Passed(j) ==
    \/ pc = "loop" /\ j < i
    \/ pc \in {"print_mv", "print_sql", "done"}

\* the entries of a list whose original is the file name
RenamesOf(name) == {n \in 1 .. Len(renames) : renames[n][1].name = name}
SqlUpdatesOf(name) ==
    {n \in 1 .. Len(sql_updates) : sql_updates[n][1] = WithoutTs(name)}

\* '20230615143000_create_orders.ts' and '1686839400000_create_orders.ts'
ScenarioOld ==
    <<50, 48, 50, 51, 48, 54, 49, 53, 49, 52, 51, 48, 48, 48, 95,
      99, 114, 101, 97, 116, 101, 95, 111, 114, 100, 101, 114, 115, 46, 116, 115>>
ScenarioNew ==
    <<49, 54, 56, 54, 56, 51, 57, 52, 48, 48, 48, 48, 48, 95,
      99, 114, 101, 97, 116, 101, 95, 111, 114, 100, 101, 114, 115, 46, 116, 115>>
\* 'src/migrations/'
ScenarioDir ==
    <<115, 114, 99, 47, 109, 105, 103, 114, 97, 116, 105, 111, 110, 115, 47>>

----------------------------------------------------------------------------
(* Properties *)

\* C1: idempotence.  When a first run has completed and its mv commands have
\* been executed, the second run emits no rename entry and no SQL entry.
C1_SecondRunEmitsNothing ==
    run >= 2 => renames = <<>> /\ sql_updates = <<>>

\* C2: round trip.  For every emitted entry, the integer before the first
\* underscore of the new base name, read as Unix milliseconds and written
\* back as UTC year, month, day, hour, minute and second, is the original
\* name's 14 digits.
C2_RoundTrip ==
    \A n \in 1 .. Len(renames) :
        BackTo14(IntegerPrefix(WithoutTs(renames[n][2].name)))
            = SubSeq(renames[n][1].name, 1, 14)

\* C3: the transformation.  The new base name of every emitted entry is
\* '<unix_ms>_<rest>': <rest> is the original's part after the underscore
\* that follows the 14 digits, and <unix_ms> writes 1000 times the whole
\* seconds from 1970-01-01T00:00:00 UTC to the 14 digits read as a UTC
\* calendar time, a multiple of 1000.  A completed run on a directory that
\* holds '20230615143000_create_orders.ts' prints the mv line and the SQL
\* update of the scenario.
C3_Transformation ==
    /\ \A n \in 1 .. Len(renames) :
          LET old    == renames[n][1].name
              base   == WithoutTs(renames[n][2].name)
              prefix == IntegerPrefix(base)
              f      == FieldsOf(old)
          IN  /\ EndsWithTs(renames[n][2].name)
              /\ renames[n][2].parent = renames[n][1].parent
              /\ base = prefix \o <<95>> \o RestOf(old)
              /\ WritesWholeSeconds(prefix)
              /\ DayAndSecond(prefix) =
                    [days    |-> DaysFromCivil(f.year, f.month, f.day),
                     seconds |-> f.hour * 3600 + f.minute * 60 + f.second]
    /\ (pc = "done" /\ ScenarioOld \in dir) =>
          /\ \E n \in 1 .. Len(out) :
                out[n] = [text |-> "mv {oldp.as_posix()} {newp.as_posix()}",
                          args |-> <<ScenarioDir \o ScenarioOld,
                                     ScenarioDir \o ScenarioNew>>]
          /\ \E n \in 1 .. Len(out) :
                out[n] = [text |-> "update inventory_schema_migrations set name='{new_base}' where name='{old_base}';",
                          args |-> <<WithoutTs(ScenarioNew), WithoutTs(ScenarioOld)>>]

C3_Witness ==
    /\ pc = "done"
    /\ ScenarioOld \in dir
    /\ Len(renames) = 2
    /\ \E n \in 1 .. 2 : Head(renames[n][2].name) = 45

\* C4: a file of the directory whose name is not '14 decimal digits,
\* underscore, one or more characters, .ts' gets no rename entry and no SQL
\* entry (every SQL entry is that of a file named so), and the run never
\* fails at it.
C4_UnmatchedSkipped ==
    /\ \A name \in dir : ~Described(name) =>
          /\ RenamesOf(name) = {}
          /\ ~(pc = "failed" /\ err = "ValueError" /\ files[i].name = name)
    /\ \A n \in 1 .. Len(sql_updates) :
          LET name == sql_updates[n][1] \o <<46, 116, 115>>
          IN  name \in dir /\ Described(name)

\* a completed run that skipped a file sorted before a renamed one
C4_Witness ==
    /\ pc = "done"
    /\ Len(files) = 2
    /\ ~Described(files[1].name)
    /\ Len(renames) = 1

\* one name is before the other in lexicographic order
LexLess(a, b) ==
    \/ Len(a) < Len(b) /\ SubSeq(b, 1, Len(a)) = a
    \/ \E n \in 1 .. Len(a) :
          /\ n <= Len(b)
          /\ SubSeq(a, 1, n - 1) = SubSeq(b, 1, n - 1)
          /\ a[n] < b[n]

\* C5: the rename entries, and the SQL entries, are in ascending
\* lexicographic order of the original file names.
C5_Ascending ==
    /\ \A a, b \in 1 .. Len(renames) :
          a < b => LexLess(renames[a][1].name, renames[b][1].name)
    /\ \A a, b \in 1 .. Len(sql_updates) :
          a < b => LexLess(sql_updates[a][1], sql_updates[b][1])

C5_Witness ==
    /\ pc = "done"
    /\ Len(renames) >= 2
    /\ Len(sql_updates) >= 2

\* C6: a file whose name passes the pattern but whose 14 digits are no date
\* and time ends the run with the date-parsing error: the loop never gets
\* past it, nothing is printed, and it gets no rename entry.
C6_InvalidDateEndsRun ==
    \A j \in 1 .. Len(files) :
        (PassesPattern(files[j].name) /\ ~IsDateTime(FieldsOf(files[j].name))) =>
            /\ ~Passed(j)
            /\ pc = "failed" => err = "ValueError" /\ i <= j
            /\ RenamesOf(files[j].name) = {}

C6_Witness ==
    /\ pc = "failed"
    /\ err = "ValueError"
    /\ i = 2
    /\ PassesPattern(files[i].name)
    /\ ~IsDateTime(FieldsOf(files[i].name))
    /\ Len(renames) = 1

\* C7: the SQL list is the rename list with '.ts' removed, entry by entry,
\* and a completed run has printed one mv line per rename entry and one SQL
\* statement per SQL entry, in the lists' order.
C7_SqlMirrorsRenames ==
    /\ Len(sql_updates) = Len(renames)
    /\ \A n \in 1 .. Len(renames) :
          /\ EndsWithTs(renames[n][1].name)
          /\ EndsWithTs(renames[n][2].name)
          /\ sql_updates[n] = <<WithoutTs(renames[n][1].name),
                                WithoutTs(renames[n][2].name)>>
    /\ pc = "done" =>
          /\ Len(out) = 2 + 2 * Len(renames)
          /\ \A n \in 1 .. Len(renames) :
                /\ out[1 + n].args = <<renames[n][1].parent \o <<47>> \o renames[n][1].name,
                                       renames[n][2].parent \o <<47>> \o renames[n][2].name>>
                /\ out[2 + Len(renames) + n].args =
                      <<WithoutTs(renames[n][2].name), WithoutTs(renames[n][1].name)>>

C7_Witness ==
    /\ pc = "done"
    /\ Len(renames) = 2
    /\ Len(out) = 6

\* C8: every rename entry's new path differs from its original path, and a
\* matched file the loop has dealt with has no entry when its new name is
\* its own name, and exactly one rename entry and one SQL entry otherwise.
C8_NewPathDiffers ==
    /\ \A n \in 1 .. Len(renames) : renames[n][1] # renames[n][2]
    /\ \A j \in 1 .. Len(files) :
          (Passed(j) /\ PassesPattern(files[j].name)) =>
              IF NewName(files[j].name) = files[j].name
              THEN /\ RenamesOf(files[j].name) = {}
                   /\ SqlUpdatesOf(files[j].name) = {}
              ELSE /\ Cardinality(RenamesOf(files[j].name)) = 1
                   /\ Cardinality(SqlUpdatesOf(files[j].name)) = 1

C8_Witness ==
    /\ pc = "loop"
    /\ i = 2
    /\ PassesPattern(files[1].name)
    /\ Len(renames) = 1

\* C9: the renaming is injective: no two rename entries have the same new
\* path, no two SQL entries the same new name.
C9_Injective ==
    /\ \A a, b \in 1 .. Len(renames) : a # b => renames[a][2] # renames[b][2]
    /\ \A a, b \in 1 .. Len(sql_updates) :
          a # b => sql_updates[a][2] # sql_updates[b][2]

\* C10: all or nothing.  Nothing is printed before the loop has dealt with
\* every file, so a failed run has printed nothing, and a completed run has
\* printed both sections whole: each header, then a line per entry.
C10_AllOrNothing ==
    /\ out # <<>> => pc \in {"print_mv", "print_sql", "done"} /\ i > Len(files)
    /\ pc = "failed" => out = <<>>
    /\ pc = "done" =>
          /\ Len(out) = 2 + Len(renames) + Len(sql_updates)
          /\ out[1].text = "# mv commands:"
          /\ \A n \in 1 .. Len(renames) : out[1 + n] = MvLine(renames[n])
          /\ out[2 + Len(renames)].text =
                "\n# SQL updates for inventory_schema_migrations (run these in psql):"
          /\ \A n \in 1 .. Len(sql_updates) :
                out[2 + Len(renames) + n] = SqlLine(sql_updates[n])

\* a run that failed at an invalid date sorted after a valid file
C10_Witness ==
    /\ pc = "failed"
    /\ err = "ValueError"
    /\ Len(renames) >= 1
    /\ out = <<>>

====
